---- MODULE Spec2Model ----
(***************************************************************************)
(* Selenium Grid exporter: the scrape-transform-publish cycle of           *)
(* Exporter.Collect / Exporter.scrape / Exporter.fetch.                    *)
(*                                                                         *)
(* Every Prometheus scrape request runs Collect in a goroutine of its own. *)
(* Each gauge operation (Set, Reset, WithLabelValues(..).Set, the read     *)
(* that sends a metric on the channel) is atomic in the client library     *)
(* and is one step here.                                                   *)
(*                                                                         *)
(* SpecSerial serves the scrape requests one after the other, with every   *)
(* kind of upstream answer; Spec lets the Collect calls overlap, as the    *)
(* HTTP server does, over a few answers.                                   *)
(***************************************************************************)
EXTENDS Integers, Sequences, FiniteSets, TLC

\* ------------------------------------------------------------------ bounds

\* Longest nodesInfo.nodes list an upstream answer carries.
MaxNodes == 2

\* Number of scrape requests (Collect goroutines) that may be in flight.
NumProcs == 2

\* Collect invocations made in one behaviour of the concurrent specification.
MaxCalls == 2

\* Consecutive failed refreshes that are told apart.
MaxStreak == 2

Procs == 1..NumProcs

\* ------------------------------------------------------- program constants

\* http.StatusOK
StatusOK == 200

\* -------------------------------------------------------------- JSON values

JNull == [t |-> "null"]
JNum(n) == [t |-> "num", n |-> n]
JStr(s) == [t |-> "str", s |-> s]
JObj(f) == [t |-> "obj", f |-> f]
JArr(a) == [t |-> "arr", a |-> a]

\* An object with no members: the JSON text {}.
NoFields == [x \in {} |-> JNull]

\* ------------------------------------------------- what the upstream holds

\* A worker node as the grid reports it.
NodeValues ==
  { [id |-> "n1", uri |-> "u1", status |-> "UP", maxSession |-> 8,
     slotCount |-> 24, sessionCount |-> 1, version |-> "4.1.0"],
    [id |-> "n2", uri |-> "u2", status |-> "UP", maxSession |-> 4,
     slotCount |-> 12, sessionCount |-> 2, version |-> "4.1.0"],
    [id |-> "n2", uri |-> "u2", status |-> "DOWN", maxSession |-> 5,
     slotCount |-> 10, sessionCount |-> 3, version |-> "4.2.0"],
    [id |-> "n3", uri |-> "u3", status |-> "UP", maxSession |-> 6,
     slotCount |-> 18, sessionCount |-> 0, version |-> "4.2.0"] }

\* The grid-level counters of an answer.
GridValues ==
  { [totalSlots |-> 72, maxSession |-> 24, sessionCount |-> 3,
     sessionQueueSize |-> 2, nodeCount |-> 1, version |-> "4.1.0"],
    [totalSlots |-> 48, maxSession |-> 16, sessionCount |-> 5,
     sessionQueueSize |-> 4, nodeCount |-> 2, version |-> "4.2.0"] }

\* The nodes lists: up to MaxNodes entries, no entry listed twice (two entries
\* may still carry the same id and uri).
NodeLists ==
  { ns \in UNION { [1..n -> NodeValues] : n \in 0..MaxNodes } :
      \A x, y \in 1..Len(ns) : x # y => ns[x] # ns[y] }

GridJ(g) ==
  JObj([f \in {"totalSlots", "maxSession", "sessionCount", "sessionQueueSize",
               "nodeCount", "version"} |->
          IF f = "version" THEN JStr(g.version)
          ELSE JNum(CASE f = "totalSlots" -> g.totalSlots
                      [] f = "maxSession" -> g.maxSession
                      [] f = "sessionCount" -> g.sessionCount
                      [] f = "sessionQueueSize" -> g.sessionQueueSize
                      [] OTHER -> g.nodeCount)])

NodeJ(n) ==
  JObj([f \in {"id", "uri", "status", "maxSession", "slotCount", "sessionCount",
               "version"} |->
          CASE f = "id" -> JStr(n.id)
            [] f = "uri" -> JStr(n.uri)
            [] f = "status" -> JStr(n.status)
            [] f = "version" -> JStr(n.version)
            [] f = "maxSession" -> JNum(n.maxSession)
            [] f = "slotCount" -> JNum(n.slotCount)
            [] OTHER -> JNum(n.sessionCount)])

\* {"data": {"grid": g, "nodesInfo": {"nodes": ns}}}
DocJ(gj, nsj) ==
  JObj("data" :> JObj(("grid" :> gj) @@ ("nodesInfo" :> JObj("nodes" :> nsj))))

Doc(g, ns) == DocJ(GridJ(g), JArr([i \in 1..Len(ns) |-> NodeJ(ns[i])]))

AGrid == CHOOSE g \in GridValues : g.version = "4.1.0"
ANode == CHOOSE n \in NodeValues : n.id = "n1"

\* Well-formed JSON that is not a complete status document.
OddDocs ==
  { JObj(NoFields),
    JNull,
    JArr(<<>>),
    \* a grid object without totalSlots
    DocJ(JObj([f \in {"maxSession", "nodeCount"} |->
                 IF f = "maxSession" THEN JNum(AGrid.maxSession)
                 ELSE JNum(AGrid.nodeCount)]),
         JArr(<<NodeJ(ANode)>>)),
    \* totalSlots of the wrong type
    DocJ(JObj(("totalSlots" :> JStr("many")) @@ GridJ(AGrid).f),
         JArr(<<NodeJ(ANode)>>)),
    \* nodes: null
    DocJ(GridJ(AGrid), JNull) }

\* Complete status documents.
GoodDocs ==
  { Doc(AGrid, ns) : ns \in NodeLists }
    \cup { Doc(g, ns) : g \in GridValues, ns \in {<<>>, <<ANode>>} }

\* A response body: text that is JSON (its value in doc) or is not ("not json").
Bodies ==
  { [json |-> FALSE, doc |-> JNull] }
    \cup { [json |-> TRUE, doc |-> d] : d \in GoodDocs \cup OddDocs }

\* What one upstream request meets: no connection, no answer within the
\* timeout, or an HTTP response whose body can or cannot be read to its end.
Responses ==
  { [kind |-> "transport"], [kind |-> "timeout"] }
    \cup { [kind |-> "http", status |-> StatusOK, readable |-> TRUE, body |-> b] :
           b \in Bodies }
    \cup { [kind |-> "http", status |-> c, readable |-> TRUE,
            body |-> [json |-> TRUE, doc |-> Doc(AGrid, <<ANode>>)]] :
           c \in {204, 503} }
    \cup { [kind |-> "http", status |-> StatusOK, readable |-> FALSE,
            body |-> [json |-> TRUE, doc |-> Doc(AGrid, <<ANode>>)]] }

\* The answers drawn while several Collect calls overlap.
OverlapResponses ==
  { [kind |-> "transport"],
    [kind |-> "http", status |-> StatusOK, readable |-> TRUE,
     body |-> [json |-> FALSE, doc |-> JNull]],
    [kind |-> "http", status |-> StatusOK, readable |-> TRUE,
     body |-> [json |-> TRUE, doc |-> Doc(AGrid, <<ANode>>)]] }

\* ------------------------------------------------------------------- fetch

\* Slip: every 2xx status is let through.
fetchAny2xx(r) ==
  IF r.kind # "http" THEN [err |-> TRUE, body |-> [json |-> FALSE, doc |-> JNull]]
  ELSE IF r.status \notin 200..299 THEN [err |-> TRUE, body |-> [json |-> FALSE, doc |-> JNull]]
  ELSE IF ~r.readable THEN [err |-> TRUE, body |-> [json |-> FALSE, doc |-> JNull]]
  ELSE [err |-> FALSE, body |-> r.body]

\* Exporter.fetch: (body, err). client.Do fails on a transport error or on
\* the timeout; a status other than 200 and a failed io.ReadAll are errors.
\* (http.NewRequest, given the fixed method and the configured URI, succeeds.)
fetch(r) ==
  IF r.kind # "http" THEN [err |-> TRUE, body |-> [json |-> FALSE, doc |-> JNull]]
  ELSE IF r.status # StatusOK THEN [err |-> TRUE, body |-> [json |-> FALSE, doc |-> JNull]]
  ELSE IF ~r.readable THEN [err |-> TRUE, body |-> [json |-> FALSE, doc |-> JNull]]
  ELSE [err |-> FALSE, body |-> r.body]

\* A log entry: the function that wrote it and its severity.
FetchError == [by |-> "fetch", level |-> "error"]
ScrapeError == [by |-> "scrape", level |-> "error"]
ScrapeInfo == [by |-> "scrape", level |-> "info"]

\* What fetch itself logs for r: logrus.Errorf on each of its error returns.
fetchLog(r) ==
  IF r.kind # "http" THEN << FetchError >>
  ELSE IF r.status # StatusOK THEN << FetchError >>
  ELSE IF ~r.readable THEN << FetchError >>
  ELSE << >>

\* ---------------------------------------------------------- json.Unmarshal

\* A member of a JSON object; an absent member leaves the field untouched,
\* exactly as a null does.
Member(j, name) == IF name \in DOMAIN j.f THEN j.f[name] ELSE JNull

\* A float64 field: a number is stored, null is skipped, anything else is an
\* UnmarshalTypeError (the field keeps its zero value).
DecNum(j) ==
  CASE j.t = "num" -> [v |-> j.n, err |-> FALSE]
    [] j.t = "null" -> [v |-> 0, err |-> FALSE]
    [] OTHER -> [v |-> 0, err |-> TRUE]

\* A string field.
DecStr(j) ==
  CASE j.t = "str" -> [v |-> j.s, err |-> FALSE]
    [] j.t = "null" -> [v |-> "", err |-> FALSE]
    [] OTHER -> [v |-> "", err |-> TRUE]

ZeroNode ==
  [Id |-> "", Uri |-> "", Status |-> "", MaxSession |-> 0, SlotCount |-> 0,
   SessionCount |-> 0, Version |-> ""]

ZeroGrid ==
  [TotalSlots |-> 0, MaxSession |-> 0, SessionCount |-> 0, SessionQueueSize |-> 0,
   NodeCount |-> 0, Version |-> ""]

\* type HubResponseNode
DecNode(j) ==
  CASE j.t = "null" -> [v |-> ZeroNode, err |-> FALSE]
    [] j.t = "obj" ->
         LET id == DecStr(Member(j, "id"))
             uri == DecStr(Member(j, "uri"))
             st == DecStr(Member(j, "status"))
             ms == DecNum(Member(j, "maxSession"))
             sl == DecNum(Member(j, "slotCount"))
             sc == DecNum(Member(j, "sessionCount"))
             ve == DecStr(Member(j, "version"))
         IN [v |-> [Id |-> id.v, Uri |-> uri.v, Status |-> st.v,
                    MaxSession |-> ms.v, SlotCount |-> sl.v,
                    SessionCount |-> sc.v, Version |-> ve.v],
             err |-> id.err \/ uri.err \/ st.err \/ ms.err \/ sl.err \/ sc.err \/ ve.err]
    [] OTHER -> [v |-> ZeroNode, err |-> TRUE]

\* hubResponse.Data.Grid
DecGrid(j) ==
  CASE j.t = "null" -> [v |-> ZeroGrid, err |-> FALSE]
    [] j.t = "obj" ->
         LET ts == DecNum(Member(j, "totalSlots"))
             ms == DecNum(Member(j, "maxSession"))
             sc == DecNum(Member(j, "sessionCount"))
             sq == DecNum(Member(j, "sessionQueueSize"))
             nc == DecNum(Member(j, "nodeCount"))
             ve == DecStr(Member(j, "version"))
         IN [v |-> [TotalSlots |-> ts.v, MaxSession |-> ms.v, SessionCount |-> sc.v,
                    SessionQueueSize |-> sq.v, NodeCount |-> nc.v, Version |-> ve.v],
             err |-> ts.err \/ ms.err \/ sc.err \/ sq.err \/ nc.err \/ ve.err]
    [] OTHER -> [v |-> ZeroGrid, err |-> TRUE]

\* hubResponse.Data.NodesInfo.Nodes, a []HubResponseNode
DecNodes(j) ==
  CASE j.t = "null" -> [v |-> <<>>, err |-> FALSE]
    [] j.t = "arr" ->
         [v |-> [x \in 1..Len(j.a) |-> DecNode(j.a[x]).v],
          err |-> \E x \in 1..Len(j.a) : DecNode(j.a[x]).err]
    [] OTHER -> [v |-> <<>>, err |-> TRUE]

\* hubResponse.Data.NodesInfo
DecNodesInfo(j) ==
  CASE j.t = "null" -> [v |-> <<>>, err |-> FALSE]
    [] j.t = "obj" -> DecNodes(Member(j, "nodes"))
    [] OTHER -> [v |-> <<>>, err |-> TRUE]

\* hubResponse.Data
DecData(j) ==
  CASE j.t = "null" -> [v |-> [Grid |-> ZeroGrid, Nodes |-> <<>>], err |-> FALSE]
    [] j.t = "obj" ->
         LET g == DecGrid(Member(j, "grid"))
             ns == DecNodesInfo(Member(j, "nodesInfo"))
         IN [v |-> [Grid |-> g.v, Nodes |-> ns.v], err |-> g.err \/ ns.err]
    [] OTHER -> [v |-> [Grid |-> ZeroGrid, Nodes |-> <<>>], err |-> TRUE]

\* json.Unmarshal(body, &hResponse) into a zero hubResponse: text that is not
\* JSON is a SyntaxError; a value of the wrong type is an UnmarshalTypeError;
\* absent members and nulls leave zero values and are no error.
Unmarshal(b) ==
  IF ~b.json THEN [v |-> [Grid |-> ZeroGrid, Nodes |-> <<>>], err |-> TRUE]
  ELSE CASE b.doc.t = "null" -> [v |-> [Grid |-> ZeroGrid, Nodes |-> <<>>], err |-> FALSE]
         [] b.doc.t = "obj" -> DecData(Member(b.doc, "data"))
         [] OTHER -> [v |-> [Grid |-> ZeroGrid, Nodes |-> <<>>], err |-> TRUE]

\* ------------------------------------------------------------- gauge state

\* A GaugeVec with no children (a new one, or one after Reset).
EmptyVec == [x \in {} |-> 0]

\* vec.WithLabelValues(lvs...).Set(v): the child is created if absent and set,
\* taken as one step.
VecSet(vec, lvs, v) ==
  [x \in DOMAIN vec \cup {lvs} |-> IF x = lvs THEN v ELSE vec[x]]

\* The metrics in the order Collect sends them.
Metrics ==
  << "up", "totalSlots", "maxSession", "sessionCount", "sessionQueueSize",
     "nodeCount", "version", "nodeStatus", "nodeMaxSession", "nodeSlotCount",
     "nodeSessionCount", "nodeVersion" >>

\* The node-scoped families in the order scrape resets them.
NodeFamilies ==
  << "nodeStatus", "nodeMaxSession", "nodeSlotCount", "nodeSessionCount",
     "nodeVersion" >>

\* NewExporter: every gauge at 0, every vector without children.
NewExporter ==
  [up |-> 0, totalSlots |-> 0, maxSession |-> 0, sessionCount |-> 0,
   sessionQueueSize |-> 0, nodeCount |-> 0, version |-> EmptyVec,
   nodeStatus |-> EmptyVec, nodeMaxSession |-> EmptyVec, nodeSlotCount |-> EmptyVec,
   nodeSessionCount |-> EmptyVec, nodeVersion |-> EmptyVec]

\* Slip: the Reset of the slot_count family is forgotten.
ResetFamilyButSlotCount(ex, n) ==
  IF NodeFamilies[n] = "nodeSlotCount" THEN ex
  ELSE [ex EXCEPT ![NodeFamilies[n]] = EmptyVec]

\* The n-th of the five Reset calls on the node families.
ResetFamily(ex, n) == [ex EXCEPT ![NodeFamilies[n]] = EmptyVec]

\* Slip: max_session is set from the session count.
SetGridGaugeMixedUp(ex, n, grid) ==
  CASE n = 1 -> [ex EXCEPT !.totalSlots = grid.TotalSlots]
    [] n = 2 -> [ex EXCEPT !.maxSession = grid.SessionCount]
    [] n = 3 -> [ex EXCEPT !.sessionCount = grid.SessionCount]
    [] n = 4 -> [ex EXCEPT !.sessionQueueSize = grid.SessionQueueSize]
    [] OTHER -> [ex EXCEPT !.nodeCount = grid.NodeCount]

\* The n-th of the five grid gauge Set calls.
SetGridGauge(ex, n, grid) ==
  CASE n = 1 -> [ex EXCEPT !.totalSlots = grid.TotalSlots]
    [] n = 2 -> [ex EXCEPT !.maxSession = grid.MaxSession]
    [] n = 3 -> [ex EXCEPT !.sessionCount = grid.SessionCount]
    [] n = 4 -> [ex EXCEPT !.sessionQueueSize = grid.SessionQueueSize]
    [] OTHER -> [ex EXCEPT !.nodeCount = grid.NodeCount]

\* Slip: Add(1.0) in place of Set(1.0).
SetGridVersionAdd(ex, grid) ==
  [ex EXCEPT !.version =
     VecSet(ex.version, <<grid.Version>>,
            IF <<grid.Version>> \in DOMAIN ex.version
            THEN ex.version[<<grid.Version>>] + 1 ELSE 1)]

\* e.version.WithLabelValues(grid.Version).Set(1.0)
SetGridVersion(ex, grid) ==
  [ex EXCEPT !.version = VecSet(ex.version, <<grid.Version>>, 1)]

\* The n-th of the five statements of the loop body, for node nd.
SetNodeGauge(ex, n, nd) ==
  CASE n = 1 -> [ex EXCEPT !.nodeStatus =
                   VecSet(ex.nodeStatus, <<nd.Id, nd.Uri, nd.Status>>, 1)]
    [] n = 2 -> [ex EXCEPT !.nodeMaxSession =
                   VecSet(ex.nodeMaxSession, <<nd.Id, nd.Uri>>, nd.MaxSession)]
    [] n = 3 -> [ex EXCEPT !.nodeSlotCount =
                   VecSet(ex.nodeSlotCount, <<nd.Id, nd.Uri>>, nd.SlotCount)]
    [] n = 4 -> [ex EXCEPT !.nodeSessionCount =
                   VecSet(ex.nodeSessionCount, <<nd.Id, nd.Uri>>, nd.SessionCount)]
    [] OTHER -> [ex EXCEPT !.nodeVersion =
                   VecSet(ex.nodeVersion, <<nd.Id, nd.Uri, nd.Version>>, 1)]

\* ----------------------------------------------------------- configuration

\* An argument of the command line or a variable of the environment: <<>>
\* when it is not there, << s >> when it is there with the text s.
Absent == <<>>
Given(s) == << s >>

NoArgs ==
  [listenAddress |-> Absent, metricsPath |-> Absent, scrapeURI |-> Absent,
   httpTimeout |-> Absent]

NoEnv ==
  [LISTEN_ADDRESS |-> Absent, TELEMETRY_PATH |-> Absent, SCRAPE_URI |-> Absent,
   HTTP_TIMEOUT |-> Absent]

\* The command lines tried: each flag left out or given.  -http-timeout is
\* given as a duration flag.Parse accepts.
ArgSets ==
  [listenAddress : {Absent, Given(":9090")},
   metricsPath : {Absent, Given("/m")},
   scrapeURI : {Absent, Given("http://hub:4444")},
   httpTimeout : {Absent, Given("1m"), Given("0s")}]

\* The environments tried: each variable unset, set to the empty string or
\* set to a value; HTTP_TIMEOUT also set to a text that is no duration.
EnvSets ==
  [LISTEN_ADDRESS : {Absent, Given(""), Given(":7070")},
   TELEMETRY_PATH : {Absent, Given(""), Given("/probe")},
   SCRAPE_URI : {Absent, Given(""), Given("http://grid:4444")},
   HTTP_TIMEOUT : {Absent, Given(""), Given("10s"), Given("30")}]

\* time.ParseDuration over the texts in use: the seconds, and whether the
\* text is a duration at all (a number needs a unit; "" is an error).
ParseDuration(s) ==
  CASE s = "5s" -> [d |-> 5, ok |-> TRUE]
    [] s = "10s" -> [d |-> 10, ok |-> TRUE]
    [] s = "1m" -> [d |-> 60, ok |-> TRUE]
    [] s = "0s" -> [d |-> 0, ok |-> TRUE]
    [] OTHER -> [d |-> 0, ok |-> FALSE]

\* A getEnv that takes a variable set to "" for an unset one.
getEnvEmptyIsUnset(env, key, fallback) ==
  IF env[key] # Absent /\ env[key] # Given("") THEN env[key][1] ELSE fallback

\* getEnv: the variable's value if os.LookupEnv finds it, else the fallback.
getEnv(env, key, fallback) ==
  IF env[key] # Absent THEN env[key][1] ELSE fallback

\* parseDuration: the duration, or 5 seconds for a text that is none.
parseDuration(duration) ==
  IF ParseDuration(duration).ok THEN ParseDuration(duration).d ELSE 5

\* The flag variables as flag.String / flag.Duration define them in env.
Define(env) ==
  [listenAddress |-> getEnv(env, "LISTEN_ADDRESS", ":8080"),
   metricsPath |-> getEnv(env, "TELEMETRY_PATH", "/metrics"),
   scrapeURI |-> getEnv(env, "SCRAPE_URI", "http://grid.local"),
   httpTimeout |-> parseDuration(getEnv(env, "HTTP_TIMEOUT", "5s"))]

\* flag.Parse: every flag given on the command line args replaces the value
\* the flag was defined with.
Parse(args, flags) ==
  [listenAddress |->
     IF args.listenAddress # Absent THEN args.listenAddress[1]
     ELSE flags.listenAddress,
   metricsPath |->
     IF args.metricsPath # Absent THEN args.metricsPath[1]
     ELSE flags.metricsPath,
   scrapeURI |->
     IF args.scrapeURI # Absent THEN args.scrapeURI[1] ELSE flags.scrapeURI,
   httpTimeout |->
     IF args.httpTimeout # Absent THEN ParseDuration(args.httpTimeout[1]).d
     ELSE flags.httpTimeout]

\* The flag variables before the package's variables are initialized.
NoFlags ==
  [listenAddress |-> "", metricsPath |-> "", scrapeURI |-> "",
   httpTimeout |-> 0]

\* ------------------------------------------------------------------- state

VARIABLES
  e,          \* the Exporter's gauges and gauge vectors
  pc,         \* pc[p]: where goroutine p stands in Collect / scrape
  k,          \* k[p]: the statement of a five- or twelve-statement run p is at
  i,          \* i[p]: the index of the range loop over Nodes
  resp,       \* resp[p]: what the upstream request of p's scrape met
  body,       \* body[p]: the bytes fetch returned
  hResponse,  \* hResponse[p]: the decoded hubResponse
  outcome,    \* outcome[p]: how p's scrape went: "ok", "fetchErr", "decodeErr"
  out,        \* out[p]: the metrics p's Collect has sent on ch, by name
  pre,        \* pre[p]: the gauges as p's Collect found them
  prev,       \* the last Collect that returned: its response and the gauges it left
  calls,      \* Collect invocations so far (counted when calls may overlap)
  reqs,       \* reqs[p]: upstream requests p's Collect has issued
  streak,     \* refreshes that have failed in a row, up to MaxStreak
  cfg,        \* the process's arguments, environment and flag variables
  logs,       \* logs[p]: the log entries written during p's Collect, in order
  succeeded   \* some refresh has decoded its payload without error

vars ==
  << e, pc, k, i, resp, body, hResponse, outcome, out, pre, prev, calls, reqs,
     streak, cfg, logs, succeeded >>

locals == << resp, body, hResponse, outcome, out, pre, reqs, logs >>

\* The locals but the log.
kept == << resp, body, hResponse, outcome, out, pre, reqs >>

\* The Exporter and its goroutines, which start-up does not touch.
serving ==
  << e, pc, k, i, resp, body, hResponse, outcome, out, pre, prev, calls, reqs,
     streak, logs, succeeded >>

NoResp == [kind |-> "none"]
NoBody == [json |-> FALSE, doc |-> JNull]
ZeroResponse == [Grid |-> ZeroGrid, Nodes |-> <<>>]
NoOut == [x \in {} |-> 0]

\* NewExporter has run; no scrape request has come yet.
InitExporter ==
  /\ e = NewExporter
  /\ pc = [p \in Procs |-> "idle"]
  /\ k = [p \in Procs |-> 0]
  /\ i = [p \in Procs |-> 0]
  /\ resp = [p \in Procs |-> NoResp]
  /\ body = [p \in Procs |-> NoBody]
  /\ hResponse = [p \in Procs |-> ZeroResponse]
  /\ outcome = [p \in Procs |-> "none"]
  /\ out = [p \in Procs |-> NoOut]
  /\ pre = [p \in Procs |-> NewExporter]
  /\ prev = <<>>
  /\ calls = 0
  /\ reqs = [p \in Procs |-> 0]
  /\ logs = [p \in Procs |-> <<>>]
  /\ succeeded = FALSE
  /\ streak = 0

\* The exporter serves, started without arguments in an empty environment.
Init ==
  /\ InitExporter
  /\ cfg = [at |-> "serving", args |-> NoArgs, env |-> NoEnv,
            flags |-> Parse(NoArgs, Define(NoEnv))]

\* Move p to label l, statement n of it.
Goto(p, l, n) ==
  /\ pc' = [pc EXCEPT ![p] = l]
  /\ k' = [k EXCEPT ![p] = n]

\* ----------------------------------------------------------------- Collect

\* Collect is entered, in the first goroutine that is free: e.scrape() is called.
Enter(p) ==
  /\ pc[p] = "idle"
  /\ \A q \in Procs : q < p => pc[q] # "idle"
  /\ Goto(p, "fetch", 0)
  /\ pre' = [pre EXCEPT ![p] = e]
  /\ UNCHANGED << e, i, resp, body, hResponse, outcome, out, reqs, logs, prev, streak, succeeded, cfg >>

\* A scrape request arrives while no other is being served.
CollectSerial(p) ==
  /\ \A q \in Procs : pc[q] = "idle"
  /\ Enter(p)
  /\ UNCHANGED calls

\* A scrape request arrives, whatever the other goroutines are doing.
CollectOverlap(p) ==
  /\ calls < MaxCalls
  /\ calls' = calls + 1
  /\ Enter(p)

\* Slip: a fetch that failed is tried once more.
FetchRetrying(p, rs) ==
  /\ pc[p] = "fetch"
  /\ \E r \in rs :
       /\ r.kind = "timeout" => cfg.flags.httpTimeout > 0
       /\ resp' = [resp EXCEPT ![p] = r]
       /\ body' = [body EXCEPT ![p] = fetch(r).body]
       /\ logs' = [logs EXCEPT ![p] = logs[p] \o fetchLog(r)]
       /\ IF fetch(r).err /\ reqs[p] = 0
          THEN UNCHANGED << pc, k, outcome >>
          ELSE IF fetch(r).err
          THEN /\ Goto(p, "fetchErr", 0)
               /\ outcome' = [outcome EXCEPT ![p] = "fetchErr"]
          ELSE /\ Goto(p, "upOk", 0)
               /\ UNCHANGED outcome
  /\ reqs' = [reqs EXCEPT ![p] = reqs[p] + 1]
  /\ UNCHANGED << e, i, hResponse, out, pre, prev, streak, succeeded, calls, cfg >>

\* Slip: the client is built without a Timeout; a silent upstream is waited
\* for without end.
FetchWithoutTimeout(p, rs) ==
  /\ pc[p] = "fetch"
  /\ \E r \in rs :
       /\ r.kind # "timeout"
       /\ resp' = [resp EXCEPT ![p] = r]
       /\ body' = [body EXCEPT ![p] = fetch(r).body]
       /\ logs' = [logs EXCEPT ![p] = logs[p] \o fetchLog(r)]
       /\ IF fetch(r).err
          THEN /\ Goto(p, "fetchErr", 0)
               /\ outcome' = [outcome EXCEPT ![p] = "fetchErr"]
          ELSE /\ Goto(p, "upOk", 0)
               /\ UNCHANGED outcome
  /\ reqs' = [reqs EXCEPT ![p] = reqs[p] + 1]
  /\ UNCHANGED << e, i, hResponse, out, pre, prev, streak, succeeded, calls, cfg >>

\* body, err := e.fetch(), the upstream answering with some r of rs.  The
\* client cuts a request off only under a positive Timeout.
Fetch(p, rs) ==
  /\ pc[p] = "fetch"
  /\ \E r \in rs :
       /\ r.kind = "timeout" => cfg.flags.httpTimeout > 0
       /\ resp' = [resp EXCEPT ![p] = r]
       /\ body' = [body EXCEPT ![p] = fetch(r).body]
       /\ logs' = [logs EXCEPT ![p] = logs[p] \o fetchLog(r)]
       /\ IF fetch(r).err
          THEN /\ Goto(p, "fetchErr", 0)
               /\ outcome' = [outcome EXCEPT ![p] = "fetchErr"]
          ELSE /\ Goto(p, "upOk", 0)
               /\ UNCHANGED outcome
  /\ reqs' = [reqs EXCEPT ![p] = reqs[p] + 1]
  /\ UNCHANGED << e, i, hResponse, out, pre, prev, streak, succeeded, calls, cfg >>

\* Slip: a fetch error also zeroes total_slots.
FetchErrUpAndTotalSlots(p) ==
  /\ pc[p] = "fetchErr"
  /\ e' = [e EXCEPT !.up = 0, !.totalSlots = 0]
  /\ Goto(p, "fetchErrReset", 1)
  /\ logs' = [logs EXCEPT ![p] = Append(logs[p], ScrapeError)]
  /\ UNCHANGED << i, kept, prev, streak, succeeded, calls, cfg >>

\* err != nil: e.up.Set(0), and the error is logged
FetchErrUp(p) ==
  /\ pc[p] = "fetchErr"
  /\ e' = [e EXCEPT !.up = 0]
  /\ Goto(p, "fetchErrReset", 1)
  /\ logs' = [logs EXCEPT ![p] = Append(logs[p], ScrapeError)]
  /\ UNCHANGED << i, kept, prev, streak, succeeded, calls, cfg >>

\* err != nil: the five Reset calls, then return
FetchErrReset(p) ==
  /\ pc[p] = "fetchErrReset"
  /\ e' = ResetFamily(e, k[p])
  /\ IF k[p] < Len(NodeFamilies) THEN Goto(p, "fetchErrReset", k[p] + 1)
     ELSE Goto(p, "emit", 1)
  /\ UNCHANGED << i, locals, prev, streak, succeeded, calls, cfg >>

\* Slip: a fetch that went well does not raise up again.
UpOkMissing(p) ==
  /\ pc[p] = "upOk"
  /\ Goto(p, "decode", 0)
  /\ logs' = [logs EXCEPT ![p] = Append(logs[p], ScrapeInfo)]
  /\ UNCHANGED << e, i, kept, prev, streak, succeeded, calls, cfg >>

\* e.up.Set(1), and the success is logged
UpOk(p) ==
  /\ pc[p] = "upOk"
  /\ e' = [e EXCEPT !.up = 1]
  /\ Goto(p, "decode", 0)
  /\ logs' = [logs EXCEPT ![p] = Append(logs[p], ScrapeInfo)]
  /\ UNCHANGED << i, kept, prev, streak, succeeded, calls, cfg >>

\* Slip: the error of json.Unmarshal is dropped, what was decoded is used.
DecodeIgnoringErr(p) ==
  /\ pc[p] = "decode"
  /\ Goto(p, "grid", 1)
  /\ outcome' = [outcome EXCEPT ![p] = "ok"]
  /\ hResponse' = [hResponse EXCEPT ![p] = Unmarshal(body[p]).v]
  /\ succeeded' = TRUE
  /\ UNCHANGED << e, i, resp, body, out, pre, reqs, logs, prev, streak, calls, cfg >>

\* json.Unmarshal(body, &hResponse); its error is logged
Decode(p) ==
  /\ pc[p] = "decode"
  /\ IF Unmarshal(body[p]).err
     THEN /\ Goto(p, "decodeErr", 0)
          /\ outcome' = [outcome EXCEPT ![p] = "decodeErr"]
          /\ logs' = [logs EXCEPT ![p] = Append(logs[p], ScrapeError)]
          /\ UNCHANGED << hResponse, succeeded >>
     ELSE /\ Goto(p, "grid", 1)
          /\ outcome' = [outcome EXCEPT ![p] = "ok"]
          /\ hResponse' = [hResponse EXCEPT ![p] = Unmarshal(body[p]).v]
          /\ succeeded' = TRUE
          /\ UNCHANGED logs
  /\ UNCHANGED << e, i, resp, body, out, pre, reqs, prev, streak, calls, cfg >>

\* Slip: a decode error leaves up as the fetch set it.
DecodeErrUpKept(p) ==
  /\ pc[p] = "decodeErr"
  /\ Goto(p, "decodeErrReset", 1)
  /\ UNCHANGED << e, i, locals, prev, streak, succeeded, calls, cfg >>

\* decode error: e.up.Set(0)
DecodeErrUp(p) ==
  /\ pc[p] = "decodeErr"
  /\ e' = [e EXCEPT !.up = 0]
  /\ Goto(p, "decodeErrReset", 1)
  /\ UNCHANGED << i, locals, prev, streak, succeeded, calls, cfg >>

\* Slip: a decode error returns without the Reset calls.
DecodeErrNoReset(p) ==
  /\ pc[p] = "decodeErrReset"
  /\ Goto(p, "emit", 1)
  /\ UNCHANGED << e, i, locals, prev, streak, succeeded, calls, cfg >>

\* decode error: the five Reset calls, then return
DecodeErrReset(p) ==
  /\ pc[p] = "decodeErrReset"
  /\ e' = ResetFamily(e, k[p])
  /\ IF k[p] < Len(NodeFamilies) THEN Goto(p, "decodeErrReset", k[p] + 1)
     ELSE Goto(p, "emit", 1)
  /\ UNCHANGED << i, locals, prev, streak, succeeded, calls, cfg >>

\* Slip: node_count is taken from the length of the nodes list.
GridSetCountingNodes(p) ==
  /\ pc[p] = "grid"
  /\ e' = IF k[p] < 5 THEN SetGridGauge(e, k[p], hResponse[p].Grid)
          ELSE [e EXCEPT !.nodeCount = Len(hResponse[p].Nodes)]
  /\ IF k[p] < 5 THEN Goto(p, "grid", k[p] + 1) ELSE Goto(p, "version", 0)
  /\ UNCHANGED << i, locals, prev, streak, succeeded, calls, cfg >>

\* e.totalSlots.Set .. e.nodeCount.Set
GridSet(p) ==
  /\ pc[p] = "grid"
  /\ e' = SetGridGauge(e, k[p], hResponse[p].Grid)
  /\ IF k[p] < 5 THEN Goto(p, "grid", k[p] + 1) ELSE Goto(p, "version", 0)
  /\ UNCHANGED << i, locals, prev, streak, succeeded, calls, cfg >>

\* e.version.WithLabelValues(grid.Version).Set(1.0)
VersionSet(p) ==
  /\ pc[p] = "version"
  /\ e' = SetGridVersion(e, hResponse[p].Grid)
  /\ Goto(p, "nodeReset", 1)
  /\ UNCHANGED << i, locals, prev, streak, succeeded, calls, cfg >>

\* the five Reset calls before the loop
NodeReset(p) ==
  /\ pc[p] = "nodeReset"
  /\ e' = ResetFamily(e, k[p])
  /\ IF k[p] < Len(NodeFamilies)
     THEN Goto(p, "nodeReset", k[p] + 1) /\ UNCHANGED i
     ELSE IF Len(hResponse[p].Nodes) = 0
          THEN Goto(p, "emit", 1) /\ UNCHANGED i
          ELSE Goto(p, "nodes", 1) /\ i' = [i EXCEPT ![p] = 1]
  /\ UNCHANGED << locals, prev, streak, succeeded, calls, cfg >>

\* one statement of the body of: for _, n := range hResponse.Data.NodesInfo.Nodes
NodeSet(p) ==
  /\ pc[p] = "nodes"
  /\ e' = SetNodeGauge(e, k[p], hResponse[p].Nodes[i[p]])
  /\ IF k[p] < 5
     THEN Goto(p, "nodes", k[p] + 1) /\ UNCHANGED i
     ELSE IF i[p] < Len(hResponse[p].Nodes)
          THEN Goto(p, "nodes", 1) /\ i' = [i EXCEPT ![p] = i[p] + 1]
          ELSE Goto(p, "emit", 1) /\ i' = [i EXCEPT ![p] = 0]
  /\ UNCHANGED << locals, prev, streak, succeeded, calls, cfg >>

\* ch <- e.up .. e.nodeVersion.Collect(ch): one metric (family) is sent, with
\* the value it has at that moment.
Emit(p) ==
  /\ pc[p] = "emit"
  /\ out' = [out EXCEPT ![p] =
               [m \in DOMAIN out[p] \cup {Metrics[k[p]]} |->
                  IF m = Metrics[k[p]] THEN e[m] ELSE out[p][m]]]
  /\ IF k[p] < Len(Metrics) THEN Goto(p, "emit", k[p] + 1) ELSE Goto(p, "return", 0)
  /\ UNCHANGED << e, i, resp, body, hResponse, outcome, pre, reqs, logs, prev, streak, succeeded, calls, cfg >>

\* Collect returns; its locals are gone.
Return(p) ==
  /\ pc[p] = "return"
  /\ Goto(p, "idle", 0)
  /\ prev' = << [resp |-> resp[p], e |-> e] >>
  /\ resp' = [resp EXCEPT ![p] = NoResp]
  /\ body' = [body EXCEPT ![p] = NoBody]
  /\ hResponse' = [hResponse EXCEPT ![p] = ZeroResponse]
  /\ outcome' = [outcome EXCEPT ![p] = "none"]
  /\ out' = [out EXCEPT ![p] = NoOut]
  /\ pre' = [pre EXCEPT ![p] = NewExporter]
  /\ reqs' = [reqs EXCEPT ![p] = 0]
  /\ logs' = [logs EXCEPT ![p] = <<>>]
  /\ streak' = IF outcome[p] = "ok" THEN 0
               ELSE IF streak < MaxStreak THEN streak + 1 ELSE MaxStreak
  /\ UNCHANGED << e, i, succeeded, calls, cfg >>

\* The statements of scrape and Collect after the fetch.
Step(p) ==
  \/ FetchErrUp(p)
  \/ FetchErrReset(p)
  \/ UpOk(p)
  \/ Decode(p)
  \/ DecodeErrUp(p)
  \/ DecodeErrReset(p)
  \/ GridSet(p)
  \/ VersionSet(p)
  \/ NodeReset(p)
  \/ NodeSet(p)
  \/ Emit(p)
  \/ Return(p)

\* Scrape requests served one after the other.
NextSerial ==
  \E p \in Procs : CollectSerial(p) \/ Fetch(p, Responses) \/ Step(p)

SpecSerial == Init /\ [][NextSerial]_vars

\* Scrape requests served as they come, each in a goroutine of its own.
Next ==
  \E p \in Procs : CollectOverlap(p) \/ Fetch(p, OverlapResponses) \/ Step(p)

Spec == Init /\ [][Next]_vars

\* A silent upstream: the request gets no answer within the timeout.
TimedOut == [kind |-> "timeout"]

\* The answers drawn where progress is at stake.
FairResponses ==
  { TimedOut,
    [kind |-> "http", status |-> StatusOK, readable |-> TRUE,
     body |-> [json |-> FALSE, doc |-> JNull]],
    [kind |-> "http", status |-> StatusOK, readable |-> TRUE,
     body |-> [json |-> TRUE, doc |-> Doc(AGrid, <<ANode>>)]] }

\* The exporter serves, started with the default timeout or with
\* -http-timeout=0s, under which the client sets no deadline.
InitFair ==
  /\ InitExporter
  /\ \E t \in {Absent, Given("0s")} :
       LET args == [NoArgs EXCEPT !.httpTimeout = t]
       IN cfg = [at |-> "serving", args |-> args, env |-> NoEnv,
                 flags |-> Parse(args, Define(NoEnv))]

NextFair ==
  \E p \in Procs : CollectOverlap(p) \/ Fetch(p, FairResponses) \/ Step(p)

\* Every goroutine that can take a step of Collect or scrape is scheduled,
\* and the client's timer fires.  Nothing makes the upstream answer.
SpecFair ==
  /\ InitFair
  /\ [][NextFair]_vars
  /\ \A p \in Procs : WF_vars(Step(p)) /\ WF_vars(Fetch(p, {TimedOut}))

\* ------------------------------------------------------------------ start-up

\* The process is started with some command line in some environment.
InitConfig ==
  /\ InitExporter
  /\ \E a \in ArgSets, v \in EnvSets :
       cfg = [at |-> "start", args |-> a, env |-> v, flags |-> NoFlags]

\* The package's variables are initialized: the flags are defined, their
\* defaults read from the environment.
DefineFlags ==
  /\ cfg.at = "start"
  /\ cfg' = [cfg EXCEPT !.at = "defined", !.flags = Define(cfg.env)]
  /\ UNCHANGED serving

\* main: flag.Parse()
ParseFlags ==
  /\ cfg.at = "defined"
  /\ cfg' = [cfg EXCEPT !.at = "parsed", !.flags = Parse(cfg.args, cfg.flags)]
  /\ UNCHANGED serving

\* main: the exporter is built, registered and served.
Serve ==
  /\ cfg.at = "parsed"
  /\ cfg' = [cfg EXCEPT !.at = "serving"]
  /\ UNCHANGED serving

NextConfig == DefineFlags \/ ParseFlags \/ Serve

SpecConfig == InitConfig /\ [][NextConfig]_vars

\* ------------------------------------------------- vocabulary of the claims

\* scrape has returned in goroutine p (Collect is sending, or about to return).
ScrapeDone(p) == pc[p] \in {"emit", "return"}

\* p is inside scrape: the fetch-decode-mutate section.
InScrape(p) == pc[p] \notin {"idle", "emit", "return"}

Failed(p) == outcome[p] \in {"fetchErr", "decodeErr"}

\* The (id, uri) pairs a gauge vector has children for.
NodeKeys(vec) == { <<x[1], x[2]>> : x \in DOMAIN vec }

\* The (id, uri) pairs a decoded snapshot lists.
SnapshotKeys(S) == { <<S.Nodes[j].Id, S.Nodes[j].Uri>> : j \in 1..Len(S.Nodes) }

UniqueKeys(S) ==
  \A x, y \in 1..Len(S.Nodes) :
    (S.Nodes[x].Id = S.Nodes[y].Id /\ S.Nodes[x].Uri = S.Nodes[y].Uri) => x = y

\* The last entry of S that carries the pair key.
LastOf(S, key) ==
  LET js == { j \in 1..Len(S.Nodes) : <<S.Nodes[j].Id, S.Nodes[j].Uri>> = key }
  IN S.Nodes[CHOOSE j \in js : \A j2 \in js : j2 <= j]

\* The node metric set a snapshot stands for.
RefNodeStatus(S) ==
  [x \in { <<S.Nodes[j].Id, S.Nodes[j].Uri, S.Nodes[j].Status>> : j \in 1..Len(S.Nodes) } |-> 1]
RefNodeVersion(S) ==
  [x \in { <<S.Nodes[j].Id, S.Nodes[j].Uri, S.Nodes[j].Version>> : j \in 1..Len(S.Nodes) } |-> 1]
RefNodeMaxSession(S) == [x \in SnapshotKeys(S) |-> LastOf(S, x).MaxSession]
RefNodeSlotCount(S) == [x \in SnapshotKeys(S) |-> LastOf(S, x).SlotCount]
RefNodeSessionCount(S) == [x \in SnapshotKeys(S) |-> LastOf(S, x).SessionCount]

\* Gauges g (the Exporter's, or a Collect's output) carry snapshot S's nodes.
NodesAre(g, S) ==
  /\ g.nodeStatus = RefNodeStatus(S)
  /\ g.nodeMaxSession = RefNodeMaxSession(S)
  /\ g.nodeSlotCount = RefNodeSlotCount(S)
  /\ g.nodeSessionCount = RefNodeSessionCount(S)
  /\ g.nodeVersion = RefNodeVersion(S)

\* Gauges g carry snapshot S's grid counters.
ScalarsAre(g, S) ==
  /\ g.totalSlots = S.Grid.TotalSlots
  /\ g.maxSession = S.Grid.MaxSession
  /\ g.sessionCount = S.Grid.SessionCount
  /\ g.sessionQueueSize = S.Grid.SessionQueueSize
  /\ g.nodeCount = S.Grid.NodeCount

NodesEmpty(g) == \A n \in 1..Len(NodeFamilies) : g[NodeFamilies[n]] = EmptyVec

SameScalars(g, h) ==
  /\ g.totalSlots = h.totalSlots
  /\ g.maxSession = h.maxSession
  /\ g.sessionCount = h.sessionCount
  /\ g.sessionQueueSize = h.sessionQueueSize
  /\ g.nodeCount = h.nodeCount

\* ------------------------------------------------------------------ claims

\* C1. Node-set replacement: once a refresh that decoded snapshot S has
\* completed, each of the five node-scoped families has children for exactly
\* the (id, uri) pairs of S; a node of an earlier snapshot that S does not
\* list is absent.
NodeSetReplacement ==
  \A p \in Procs :
    (ScrapeDone(p) /\ outcome[p] = "ok") =>
      \A n \in 1..Len(NodeFamilies) :
        NodeKeys(e[NodeFamilies[n]]) = SnapshotKeys(hResponse[p])

\* The {A,B} then {B,C} case: the refresh found a node that S drops, one that
\* S keeps and S brings a new one.
NodeSetReplacementReached ==
  \E p \in Procs :
    /\ ScrapeDone(p) /\ outcome[p] = "ok"
    /\ NodeKeys(pre[p].nodeStatus) \ SnapshotKeys(hResponse[p]) # {}
    /\ NodeKeys(pre[p].nodeStatus) \cap SnapshotKeys(hResponse[p]) # {}
    /\ SnapshotKeys(hResponse[p]) \ NodeKeys(pre[p].nodeStatus) # {}

\* C2. Version-label replacement: after any successful refresh the grid
\* version label set is exactly {snapshot.version -> 1}; the version of an
\* earlier refresh does not remain.
VersionLabelReplacement ==
  \A p \in Procs :
    (ScrapeDone(p) /\ outcome[p] = "ok") =>
      e.version = [x \in {<<hResponse[p].Grid.Version>>} |-> 1]

\* C3. Failure clears node state: a refresh that fails (fetch error or decode
\* error) ends with up = 0 and the five node-scoped families empty, however
\* many nodes earlier refreshes published.
FailureClearsNodeState ==
  \A p \in Procs :
    (ScrapeDone(p) /\ Failed(p)) => (e.up = 0 /\ NodesEmpty(e))

\* A decode failure that found MaxNodes nodes published and up = 1.
FailureClearsNodeStateReached ==
  \E p \in Procs :
    /\ ScrapeDone(p) /\ outcome[p] = "decodeErr"
    /\ pre[p].up = 1
    /\ Cardinality(DOMAIN pre[p].nodeMaxSession) = MaxNodes

\* C4. After a failed refresh the grid version label set is empty.
VersionClearedOnFailure ==
  \A p \in Procs :
    (ScrapeDone(p) /\ Failed(p)) => e.version = EmptyVec

\* C5. Mutual exclusion of refresh: at most one Collect at a time is inside
\* scrape.
MutualExclusion ==
  \A p, q \in Procs : (p # q /\ InScrape(p)) => ~InScrape(q)

\* C6. No torn reads: what a Collect call has sent when it returns is the
\* complete end state of one refresh: with up = 0 the node families are
\* empty, with up = 1 the scalars and the node families are those of one
\* snapshot, whose version is in the version set.
NoTornReads ==
  \A p \in Procs :
    pc[p] = "return" =>
      \/ out[p].up = 0 /\ NodesEmpty(out[p])
      \/ /\ out[p].up = 1
         /\ \E r \in Responses \cup OverlapResponses :
              /\ ~fetch(r).err
              /\ ~Unmarshal(fetch(r).body).err
              /\ ScalarsAre(out[p], Unmarshal(fetch(r).body).v)
              /\ NodesAre(out[p], Unmarshal(fetch(r).body).v)
              /\ <<Unmarshal(fetch(r).body).v.Grid.Version>> \in DOMAIN out[p].version

\* C7. up reflects the last refresh: up is 0 or 1 at all times, and after a
\* completed refresh up = 1 exactly when that refresh fetched and decoded.
UpReflectsLastRefresh ==
  /\ e.up \in {0, 1}
  /\ \A p \in Procs : ScrapeDone(p) => (e.up = 1 <=> outcome[p] = "ok")

\* Both directions, each against the opposite value found: a decode failure
\* after up = 1.
UpReflectsLastRefreshReached ==
  \E p \in Procs :
    ScrapeDone(p) /\ outcome[p] = "decodeErr" /\ pre[p].up = 1 /\ e.up = 0

\* C8. Idempotence: a refresh against the same upstream response as the
\* refresh before it leaves the published state (up, scalars, version set,
\* node families) that the refresh before it left.
Idempotence ==
  \A p \in Procs :
    (ScrapeDone(p) /\ prev # <<>>) =>
      (prev[1].resp = resp[p] => e = prev[1].e)

\* The same healthy answer, with nodes, twice in a row.
IdempotenceReached ==
  \E p \in Procs :
    /\ ScrapeDone(p) /\ prev # <<>> /\ prev[1].resp = resp[p]
    /\ outcome[p] = "ok"
    /\ Len(hResponse[p].Nodes) = MaxNodes

\* C9. Successful-refresh mapping: after a refresh that decoded snapshot S
\* with unique (id, uri) pairs, whatever was published before: up = 1, the
\* five scalars are S's grid fields, and for each node status{id,uri,status}
\* = 1, max_session, slot_count, session_count{id,uri} are the node's numbers
\* and version{id,uri,version} = 1.
SuccessfulRefreshMapping ==
  \A p \in Procs :
    (ScrapeDone(p) /\ outcome[p] = "ok" /\ UniqueKeys(hResponse[p])) =>
      /\ e.up = 1
      /\ ScalarsAre(e, hResponse[p])
      /\ NodesAre(e, hResponse[p])

\* A snapshot of MaxNodes nodes published over a different earlier state.
SuccessfulRefreshMappingReached ==
  \E p \in Procs :
    /\ ScrapeDone(p) /\ outcome[p] = "ok" /\ UniqueKeys(hResponse[p])
    /\ Len(hResponse[p].Nodes) = MaxNodes
    /\ ~SameScalars(pre[p], e)
    /\ pre[p].nodeStatus # EmptyVec
    /\ pre[p].nodeStatus # e.nodeStatus

\* C10. A failed refresh leaves the scalar gauges as it found them: only up
\* and the node-scoped families change.
ScalarsUnchangedOnFailure ==
  \A p \in Procs :
    (ScrapeDone(p) /\ Failed(p)) =>
      (SameScalars(e, pre[p]) /\ e.version = pre[p].version)

\* A failure after a success: the scalars found were not the initial zeros.
ScalarsUnchangedOnFailureReached ==
  \E p \in Procs :
    /\ ScrapeDone(p) /\ Failed(p)
    /\ pre[p].up = 1
    /\ pre[p].totalSlots # 0 /\ pre[p].nodeCount # 0
    /\ e.totalSlots = pre[p].totalSlots

\* p's scrape has made its upstream request and got an HTTP response whose
\* body could be read.
GotResponse(p) == resp[p].kind = "http" /\ resp[p].readable

\* C11 (as stated). Bad-status classification: fetch fails exactly when the
\* status is outside 200..299; any 2xx response with a readable body is the
\* payload; a bad status ends like any other fetch failure.
BadStatusIsNon2xx ==
  \A p \in Procs :
    GotResponse(p) =>
      /\ outcome[p] = "fetchErr" <=> resp[p].status \notin 200..299
      /\ resp[p].status \in 200..299 => body[p] = resp[p].body
      /\ (ScrapeDone(p) /\ resp[p].status \notin 200..299) => (e.up = 0 /\ NodesEmpty(e))

\* C11 (amended). fetch fails exactly when the status is not 200; a 200
\* response with a readable body is the payload; a bad status ends with
\* up = 0 and the node families empty, like any other fetch failure.
BadStatusIsNon200 ==
  \A p \in Procs :
    GotResponse(p) =>
      /\ outcome[p] = "fetchErr" <=> resp[p].status # StatusOK
      /\ resp[p].status = StatusOK => body[p] = resp[p].body
      /\ (ScrapeDone(p) /\ resp[p].status # StatusOK) => (e.up = 0 /\ NodesEmpty(e))

\* A 2xx answer other than 200 has failed a refresh that found nodes published.
BadStatusIsNon200Reached ==
  \E p \in Procs :
    /\ ScrapeDone(p) /\ GotResponse(p)
    /\ resp[p].status \in 201..299
    /\ outcome[p] = "fetchErr"
    /\ pre[p].up = 1 /\ pre[p].nodeStatus # EmptyVec

\* The member of JSON value j called name, if j is an object that has it.
Has(j, name) == j.t = "obj" /\ name \in DOMAIN j.f

\* A JSON object that is no complete status document: the grid object, or
\* one of its five numeric members, is not there.
LacksNumericField(d) ==
  /\ d.t = "obj"
  /\ \/ ~Has(d, "data")
     \/ ~Has(d.f["data"], "grid")
     \/ \E name \in {"totalSlots", "maxSession", "sessionCount", "sessionQueueSize",
                     "nodeCount"} : ~Has(d.f["data"].f["grid"], name)

\* p's scrape was answered 200 with a body that is well-formed JSON and
\* lacks required numeric fields.
GotIncomplete(p) ==
  /\ GotResponse(p) /\ resp[p].status = StatusOK
  /\ resp[p].body.json
  /\ LacksNumericField(resp[p].body.doc)

\* C12. Incomplete payloads are decode failures: a refresh answered with
\* well-formed JSON that lacks required numeric fields ends with up = 0, the
\* node families empty and no scalar gauge set from the payload.
IncompletePayloadFails ==
  \A p \in Procs :
    (ScrapeDone(p) /\ GotIncomplete(p)) =>
      (e.up = 0 /\ NodesEmpty(e) /\ SameScalars(e, pre[p]))

\* C13. Recovery after outages: after any number of failed refreshes in a
\* row the exporter takes the next Collect, and a refresh that then meets a
\* healthy upstream ends with up = 1, the snapshot's five grid counters, its
\* version labelled 1 and exactly its nodes.
RecoveryAfterOutages ==
  /\ (streak >= 1 /\ \A q \in Procs : pc[q] = "idle") =>
       ENABLED (\E q \in Procs : CollectSerial(q))
  /\ \A p \in Procs :
       (ScrapeDone(p) /\ outcome[p] = "ok" /\ streak >= 1) =>
         /\ e.up = 1
         /\ ScalarsAre(e, hResponse[p])
         /\ <<hResponse[p].Grid.Version>> \in DOMAIN e.version
         /\ e.version[<<hResponse[p].Grid.Version>>] = 1
         /\ NodesAre(e, hResponse[p])

\* A healthy answer with MaxNodes nodes after MaxStreak failures in a row.
RecoveryAfterOutagesReached ==
  \E p \in Procs :
    /\ ScrapeDone(p) /\ outcome[p] = "ok" /\ streak = MaxStreak
    /\ Len(hResponse[p].Nodes) = MaxNodes
    /\ e.up = 1

Configured == cfg.at \in {"parsed", "serving"}

\* Flag if given, else variable if set, else the built-in default.
Precedence(arg, var, builtin) ==
  IF arg # Absent THEN arg[1] ELSE IF var # Absent THEN var[1] ELSE builtin

\* The three settings that are texts follow the precedence.
TextSettingsByPrecedence ==
  /\ cfg.flags.listenAddress =
       Precedence(cfg.args.listenAddress, cfg.env.LISTEN_ADDRESS, ":8080")
  /\ cfg.flags.metricsPath =
       Precedence(cfg.args.metricsPath, cfg.env.TELEMETRY_PATH, "/metrics")
  /\ cfg.flags.scrapeURI =
       Precedence(cfg.args.scrapeURI, cfg.env.SCRAPE_URI, "http://grid.local")

\* C15 as stated: each of the four effective values is the flag if given,
\* else the environment variable if set, else the built-in default; so a set
\* HTTP_TIMEOUT, with no -http-timeout flag, is the fetch timeout.
ConfigPrecedenceAsStated ==
  Configured =>
    /\ TextSettingsByPrecedence
    /\ LET text == Precedence(cfg.args.httpTimeout, cfg.env.HTTP_TIMEOUT, "5s")
       IN /\ ParseDuration(text).ok
          /\ cfg.flags.httpTimeout = ParseDuration(text).d

\* C15. Configuration precedence: listen address, metrics path and scrape
\* URI are the flag if given, else the environment variable if set (be it
\* empty), else :8080, /metrics, http://grid.local.  The fetch timeout is the
\* flag if given, else HTTP_TIMEOUT if it is set to a duration, else 5s: a
\* HTTP_TIMEOUT that is set to no duration counts as unset.  No environment
\* variable overrides a flag that is given.
ConfigPrecedence ==
  Configured =>
    /\ TextSettingsByPrecedence
    /\ cfg.flags.httpTimeout =
         IF cfg.args.httpTimeout # Absent
         THEN ParseDuration(cfg.args.httpTimeout[1]).d
         ELSE IF cfg.env.HTTP_TIMEOUT # Absent
                 /\ ParseDuration(cfg.env.HTTP_TIMEOUT[1]).ok
         THEN ParseDuration(cfg.env.HTTP_TIMEOUT[1]).d
         ELSE 5

\* Parsed: a flag given over a set variable, a variable set to the empty
\* string with no flag, and HTTP_TIMEOUT set to a text that is no duration.
ConfigPrecedenceReached ==
  /\ cfg.at = "parsed"
  /\ cfg.args.listenAddress # Absent /\ cfg.env.LISTEN_ADDRESS = Given(":7070")
  /\ cfg.args.metricsPath = Absent /\ cfg.env.TELEMETRY_PATH = Given("")
  /\ cfg.args.scrapeURI = Absent /\ cfg.env.SCRAPE_URI = Absent
  /\ cfg.args.httpTimeout = Absent /\ cfg.env.HTTP_TIMEOUT = Given("30")
  /\ cfg.flags.httpTimeout = 5

\* The fetch of p's refresh has returned a body that json.Unmarshal rejects.
GotMalformed(p) ==
  /\ pc[p] \notin {"idle", "fetch"}
  /\ ~fetch(resp[p]).err
  /\ Unmarshal(body[p]).err

\* C16. No partial application of a malformed snapshot: from the fetch to the
\* return of a refresh whose payload fails to decode, the five grid counters
\* and the version entries stay as the refresh found them, every node family
\* is as the refresh found it or empty, and the refresh ends with up = 0.
NoPartialApplication ==
  \A p \in Procs :
    GotMalformed(p) =>
      /\ SameScalars(e, pre[p])
      /\ e.version = pre[p].version
      /\ \A n \in 1..Len(NodeFamilies) :
           e[NodeFamilies[n]] \in {pre[p][NodeFamilies[n]], EmptyVec}
      /\ ScrapeDone(p) => (e.up = 0 /\ outcome[p] = "decodeErr")

\* A JSON document with a field of the wrong type has been refused; what it
\* did decode differs from the counters published, and nodes were published.
NoPartialApplicationReached ==
  \E p \in Procs :
    /\ ScrapeDone(p) /\ GotMalformed(p) /\ body[p].json
    /\ Unmarshal(body[p]).v.Grid.MaxSession # e.maxSession
    /\ Unmarshal(body[p]).v.Grid.MaxSession # 0
    /\ pre[p].nodeStatus # EmptyVec

\* No Collect has returned, and every refresh whose fetch has returned has
\* met a fetch error or a payload that fails to decode: no payload has been
\* or will be decoded successfully in any refresh under way.
OnlyFailingRefreshes ==
  /\ prev = <<>>
  /\ \A r \in Procs :
       pc[r] \notin {"idle", "fetch"} => (fetch(resp[r]).err \/ GotMalformed(r))

\* C17. Ordering of the availability flag: up is set to 1 only after a
\* payload has been decoded successfully; so while only refreshes that fail
\* have run, whose fetch may have succeeded, no Collect sends up = 1.
UpOnlyAfterDecode ==
  OnlyFailingRefreshes =>
    \A q \in Procs :
      (pc[q] \in {"emit", "return"} /\ "up" \in DOMAIN out[q]) => out[q].up = 0

\* The entries of snapshot S that carry the pair key.
EntriesOf(S, key) ==
  { j \in 1..Len(S.Nodes) : <<S.Nodes[j].Id, S.Nodes[j].Uri>> = key }

\* The (id, uri) pairs snapshot S lists more than once.
DuplicatedKeys(S) == { key \in SnapshotKeys(S) : Cardinality(EntriesOf(S, key)) > 1 }

\* The label tuples of vec that belong to the pair key.
TuplesOf(vec, key) == { x \in DOMAIN vec : <<x[1], x[2]>> = key }

\* The three numeric node gauges of the pair key are the later entry's.
LaterNumbers(g, S, key) ==
  /\ key \in DOMAIN g.nodeMaxSession
  /\ g.nodeMaxSession[key] = LastOf(S, key).MaxSession
  /\ key \in DOMAIN g.nodeSlotCount
  /\ g.nodeSlotCount[key] = LastOf(S, key).SlotCount
  /\ key \in DOMAIN g.nodeSessionCount
  /\ g.nodeSessionCount[key] = LastOf(S, key).SessionCount

\* C18. Duplicate (id, uri) pairs: for a pair listed more than once the three
\* numeric gauges are the later entry's numbers, and there is exactly one
\* status-labeled and one version-labeled entry for the pair, with the later
\* entry's status and version.
DuplicatePairsLaterWins ==
  \A p \in Procs :
    (ScrapeDone(p) /\ outcome[p] = "ok") =>
      \A key \in DuplicatedKeys(hResponse[p]) :
        /\ LaterNumbers(e, hResponse[p], key)
        /\ TuplesOf(e.nodeStatus, key) =
             { <<key[1], key[2], LastOf(hResponse[p], key).Status>> }
        /\ TuplesOf(e.nodeVersion, key) =
             { <<key[1], key[2], LastOf(hResponse[p], key).Version>> }
\* C19. No cross-validation of nodeCount: after a successful refresh
\* node_count is the snapshot's nodeCount field, whatever the length of its
\* nodes list; with an empty nodes list up is 1 and the five node families
\* are empty.
NodeCountNotCrossValidated ==
  \A p \in Procs :
    (ScrapeDone(p) /\ outcome[p] = "ok") =>
      /\ e.nodeCount = hResponse[p].Grid.NodeCount
      /\ Len(hResponse[p].Nodes) = 0 => (e.up = 1 /\ NodesEmpty(e))

\* A snapshot with nodeCount > 0 and no nodes has been applied over a state
\* that had nodes published.
NodeCountNotCrossValidatedReached ==
  \E p \in Procs :
    /\ ScrapeDone(p) /\ outcome[p] = "ok"
    /\ Len(hResponse[p].Nodes) = 0
    /\ hResponse[p].Grid.NodeCount > 0
    /\ e.nodeCount = hResponse[p].Grid.NodeCount
    /\ pre[p].nodeStatus # EmptyVec

\* p's Collect has sent all its metrics.
AllSent(p) == DOMAIN out[p] = { Metrics[n] : n \in 1..Len(Metrics) }

\* The steps goroutine p takes of its own accord: a statement of Collect or
\* scrape, or the return of a request that the client's timer has cut off.
\* An answer is for the upstream to give.
OwnStep(p) == Fetch(p, {TimedOut}) \/ Step(p)

\* The statements of Collect in the order of the control flow.
Labels ==
  << "fetch", "fetchErr", "fetchErrReset", "upOk", "decode", "decodeErr",
     "decodeErrReset", "grid", "version", "nodeReset", "nodes", "emit",
     "return" >>

\* How far a goroutine at label l, node ii, statement kk has come.
Progress(l, ii, kk) ==
  (CHOOSE n \in 1..Len(Labels) : Labels[n] = l) * 1000 + ii * 20 + kk

\* Whenever a Collect under way moves, it moves forward or returns from the
\* last label.
Advances ==
  \A p \in Procs :
    (pc[p] # "idle" /\ <<pc'[p], i'[p], k'[p]>> # <<pc[p], i[p], k[p]>>) =>
      \/ pc[p] = "return" /\ pc'[p] = "idle"
      \/ /\ pc'[p] # "idle"
         /\ Progress(pc'[p], i'[p], k'[p]) > Progress(pc[p], i[p], k[p])

NeverWaitsUnderTimeout ==
  \A p \in Procs :
    /\ (pc[p] # "idle" /\ cfg.flags.httpTimeout > 0) => ENABLED OwnStep(p)
    /\ pc[p] = "return" => AllSent(p)

ErrorEntries(es) == SelectSeq(es, LAMBDA x : x.level = "error")

\* C21. Logging discipline: fetch logs nothing; a refresh that has failed
\* has written exactly one entry of error severity, written by scrape; a
\* refresh that has succeeded has written none.
LoggingDiscipline ==
  \A p \in Procs :
    ScrapeDone(p) =>
      /\ \A n \in 1..Len(logs[p]) : logs[p][n].by # "fetch"
      /\ Failed(p) => ErrorEntries(logs[p]) = << ScrapeError >>
      /\ outcome[p] = "ok" => ErrorEntries(logs[p]) = << >>

\* No goroutine is inside scrape.
NoRefreshInProgress == \A p \in Procs : ~InScrape(p)

\* C22. Node-family key consistency: whenever no refresh is in progress the
\* five node families have children for the same (id, uri) pairs.
NodeFamilyKeysAgree ==
  NoRefreshInProgress =>
    \A n \in 1..Len(NodeFamilies) :
      NodeKeys(e[NodeFamilies[n]]) = NodeKeys(e.nodeStatus)

\* No refresh has decoded a payload so far, and none that is under way has
\* fetched one that decodes.
BeforeFirstSuccess ==
  /\ ~succeeded
  /\ \A r \in Procs :
       pc[r] \notin {"idle", "fetch"} => (fetch(resp[r]).err \/ GotMalformed(r))

\* C23. State before the first success: until a refresh succeeds, after any
\* number of failed ones, every metric a Collect sends has the value
\* NewExporter gave it (up = 0, the five grid counters 0, the version and
\* node families empty), and so have the gauges whenever no refresh is in
\* progress.
InitialUntilFirstSuccess ==
  BeforeFirstSuccess =>
    /\ \A q \in Procs : \A m \in DOMAIN out[q] : out[q][m] = NewExporter[m]
    /\ NoRefreshInProgress => e = NewExporter

====
